---------------------------- MODULE Spec2Model ----------------------------
(* Model of the helium-client-python serial transport shim                *)
(* (helium_client/_serial.c): open_serial_port, close_serial_port,        *)
(* helium_serial_readable, helium_serial_getc, helium_serial_putc and     *)
(* helium_wait_us, together with the part of the operating system the     *)
(* shim drives: the process descriptor table, one serial device with its  *)
(* termios settings, exclusive-access flag and input queue, and the wire  *)
(* (loopback plug or remote peer).                                        *)
EXTENDS Integers, Sequences, FiniteSets, TLC

VARIABLES
    fdtab,    \* descriptor table of the process: fd -> Free or an open file
    excl,     \* TIOCEXCL flag of the device
    tio,      \* termios settings of the device
    rxq,      \* input queue of the device (bytes received, not yet read)
    hup,      \* the device has hung up (unplugged)
    wiring,   \* what the device's lines are wired to: "loopback" or "remote"
    hstate,   \* the caller's view of each handle: none / open / closed / lapsed
    last      \* the last call made on the shim, its requests and its results

vars == <<fdtab, excl, tio, rxq, hup, wiring, hstate, last>>

----------------------------------------------------------------------------
(* Bounds of the model.                                                   *)

\* number of descriptors the process may hold (open fails with EMFILE beyond)
FdLimit == 2
\* capacity of the device's input queue (further bytes are dropped)
MaxQueue == 2

Fds == 0 .. (FdLimit - 1)

\* byte values written and received in the general specification: CR (which
\* input processing may translate or drop) and 0xFF (eighth bit set, the
\* PARMRK marker)
Bytes == {13, 255}
\* every value a uint8_t takes
AllBytes == 0 .. 255

----------------------------------------------------------------------------
(* Inputs of open_serial_port.                                            *)

DevPath == "/dev/ttyUSB0"
Paths == {DevPath, "/dev/does-not-exist", "/dev/no-permission"}

\* enum helium_baud, and a value outside the enumeration
Bauds == {"helium_baud_b9600", "helium_baud_b14400", "helium_baud_b19200",
          "helium_baud_b38400", "helium_baud_b57600", "helium_baud_b115200"}
BaudArgs == Bauds \cup {"out_of_range"}

\* the paths and selectors open_serial_port is called with where the claims
\* are about the byte transfers that follow
IOPaths == {DevPath, "/dev/does-not-exist"}
IOBauds == {"helium_baud_b14400"}

\* the system call of open_serial_port, after open(2), that the operating
\* system fails during a call
Faults == {"none", "ioctl", "fcntl", "tcgetattr", "tcsetattr"}

----------------------------------------------------------------------------
(* termios: flags are sets of flag names, so |= is \cup and &= ~ is \.    *)
(* The two bits of the CSIZE field are CSIZE0 and CSIZE1: CS5 = {},       *)
(* CS6 = {CSIZE0}, CS7 = {CSIZE1}, CS8 = {CSIZE0, CSIZE1}.                *)

CSIZE == {"CSIZE0", "CSIZE1"}
CS8 == {"CSIZE0", "CSIZE1"}
CS7 == {"CSIZE1"}

\* the settings a freshly created tty has (canonical, "cooked" mode)
CookedTermios ==
    [cflag |-> CS8 \cup {"CREAD", "HUPCL"},
     iflag |-> {"ICRNL", "IXON", "BRKINT"},
     lflag |-> {"ISIG", "ICANON", "ECHO", "IEXTEN"},
     oflag |-> {"OPOST", "ONLCR"},
     vmin |-> 1, vtime |-> 0, ispeed |-> "B38400", ospeed |-> "B38400"]

\* settings left behind by some other program
OddTermios ==
    [cflag |-> CS7 \cup {"PARENB", "CSTOPB", "CRTSCTS"},
     iflag |-> {"ISTRIP", "INLCR", "IGNCR", "PARMRK", "IGNBRK", "INPCK"},
     lflag |-> {"ECHONL"},
     oflag |-> {"OPOST"},
     vmin |-> 0, vtime |-> 5, ispeed |-> "B115200", ospeed |-> "B9600"]

InitialTermios == {CookedTermios, OddTermios}

\* bits per character on the wire: CS5..CS8
CharBits(t) ==
    5 + (IF "CSIZE0" \in t.cflag THEN 1 ELSE 0)
      + (IF "CSIZE1" \in t.cflag THEN 2 ELSE 0)

\* a byte as the UART frames it: only the low CharBits bits travel
WireByte(t, b) == b % (2 ^ CharBits(t))

\* output processing of the line discipline: the bytes put on the wire for b
OutputProcess(t, b) ==
    IF "OPOST" \in t.oflag /\ "ONLCR" \in t.oflag /\ b = 10
    THEN <<13, 10>>
    ELSE <<b>>

\* input processing of the line discipline: the bytes queued for a received b
InputProcess(t, b) ==
    LET c == IF "ISTRIP" \in t.iflag THEN b % 128 ELSE b
    IN  IF "IXON" \in t.iflag /\ c \in {17, 19} THEN <<>>
        ELSE IF "ISIG" \in t.lflag /\ c \in {3, 26, 28} THEN <<>>
        ELSE IF c = 13 /\ "IGNCR" \in t.iflag THEN <<>>
        ELSE IF c = 13 /\ "ICRNL" \in t.iflag THEN <<10>>
        ELSE IF c = 10 /\ "INLCR" \in t.iflag THEN <<13>>
        ELSE IF c = 255 /\ "PARMRK" \in t.iflag /\ "ISTRIP" \notin t.iflag
             THEN <<255, 255>>
        ELSE <<c>>

RECURSIVE Receive(_, _)
\* the bytes queued when the bytes of ws arrive on the receive line
Receive(t, ws) ==
    IF ws = <<>> \/ "CREAD" \notin t.cflag THEN <<>>
    ELSE InputProcess(t, WireByte(t, Head(ws))) \o Receive(t, Tail(ws))

\* q with the bytes of s appended, as far as the queue has room
Enqueue(q, s) ==
    LET all == q \o s
    IN  IF Len(all) <= MaxQueue THEN all ELSE SubSeq(all, 1, MaxQueue)


----------------------------------------------------------------------------
(* The operating system: descriptor table and the system calls the shim   *)
(* makes. A call that can complete in several ways is a set of outcomes;  *)
(* a call that waits has only the outcome of being interrupted (EINTR).   *)

Free == [used |-> FALSE, nonblock |-> FALSE]

IsOpen(fd) == fd \in Fds /\ fdtab[fd].used

AnyOpen(ft) == \E f \in Fds : ft[f].used

\* open(portname, O_RDWR | O_NOCTTY | O_NONBLOCK): the lowest free
\* descriptor, opened with O_NONBLOCK set, or -1 (ENOENT, EACCES, ENODEV
\* after a hang-up, EBUSY on an exclusively held tty, EMFILE)
sys_open(path) ==
    LET free == {f \in Fds : ~fdtab[f].used}
    IN  IF path # DevPath \/ hup \/ (excl /\ AnyOpen(fdtab)) \/ free = {}
        THEN [ret |-> -1, fdtab |-> fdtab]
        ELSE LET fd == CHOOSE f \in free : \A g \in free : f <= g
             IN  [ret |-> fd,
                  fdtab |-> [fdtab EXCEPT
                               ![fd] = [used |-> TRUE, nonblock |-> TRUE]]]

\* close(fd): releases the descriptor; the last close of the tty drops its
\* exclusive flag and flushes its input queue
sys_close(fd) ==
    IF ~IsOpen(fd)
    THEN [ret |-> -1, fdtab |-> fdtab, excl |-> excl, rxq |-> rxq]
    ELSE LET ft == [fdtab EXCEPT ![fd] = Free]
         IN  [ret |-> 0, fdtab |-> ft,
              excl |-> IF AnyOpen(ft) THEN excl ELSE FALSE,
              rxq |-> IF AnyOpen(ft) THEN rxq ELSE <<>>]

\* input is ready for a read: in canonical mode a complete line, otherwise
\* at least one byte (a one-byte read is satisfied by one byte when
\* VMIN >= 1)
InputAvail ==
    IF "ICANON" \in tio.lflag THEN \E i \in 1 .. Len(rxq) : rxq[i] = 10
    ELSE rxq # <<>>

\* poll(&pollfd, 1, timeout) with events = POLLIN. A hung-up tty reports
\* POLLHUP and POLLERR, and (by driver) POLLIN as well
sys_poll(fd, timeout) ==
    IF ~IsOpen(fd) THEN {[ret |-> 1, revents |-> {"POLLNVAL"}, intr |-> FALSE]}
    ELSE IF hup
    THEN {[ret |-> 1, revents |-> ev, intr |-> FALSE] :
            ev \in {{"POLLIN", "POLLERR", "POLLHUP"}, {"POLLERR", "POLLHUP"}}}
    ELSE IF InputAvail
    THEN {[ret |-> 1, revents |-> {"POLLIN"}, intr |-> FALSE]}
    ELSE IF timeout >= 0
    THEN {[ret |-> 0, revents |-> {}, intr |-> FALSE]}
    ELSE {[ret |-> -1, revents |-> {}, intr |-> TRUE]}

\* read(fd, buf, count): n is the result, data the bytes stored in buf
sys_read(fd, count) ==
    LET k == IF Len(rxq) < count THEN Len(rxq) ELSE count
    IN  IF ~IsOpen(fd)
        THEN {[n |-> -1, data |-> <<>>, rxq |-> rxq, intr |-> FALSE]}
        ELSE IF hup
        THEN {[n |-> 0, data |-> <<>>, rxq |-> rxq, intr |-> FALSE]}
        ELSE IF InputAvail
        THEN {[n |-> k, data |-> SubSeq(rxq, 1, k),
               rxq |-> SubSeq(rxq, k + 1, Len(rxq)), intr |-> FALSE]}
        ELSE IF fdtab[fd].nonblock
        THEN {[n |-> -1, data |-> <<>>, rxq |-> rxq, intr |-> FALSE]}
        ELSE IF "ICANON" \notin tio.lflag /\ tio.vmin = 0
        THEN {[n |-> 0, data |-> <<>>, rxq |-> rxq, intr |-> FALSE]}
        ELSE {[n |-> -1, data |-> <<>>, rxq |-> rxq, intr |-> TRUE]}

RECURSIVE OutputAll(_, _)
\* the bytes put on the wire for the bytes of buf
OutputAll(t, buf) ==
    IF buf = <<>> THEN <<>>
    ELSE OutputProcess(t, Head(buf)) \o OutputAll(t, Tail(buf))

\* write(fd, buf, Len(buf)): sent is what goes on the wire; on a loopback
\* plug it comes straight back through the receiver
sys_write(fd, buf) ==
    IF ~IsOpen(fd) \/ hup
    THEN [n |-> -1, sent |-> <<>>, rxq |-> rxq]
    ELSE LET out == OutputAll(tio, buf)
         IN  [n |-> Len(buf), sent |-> out,
              rxq |-> IF wiring = "loopback"
                      THEN Enqueue(rxq, Receive(tio, out))
                      ELSE rxq]

\* the call waits: nothing but a signal ends it
PollWaits(fd, timeout) == \A p \in sys_poll(fd, timeout) : p.intr
ReadWaits(fd) == \A r \in sys_read(fd, 1) : r.intr


----------------------------------------------------------------------------
(* The shim: helium_client/_serial.c.                                     *)

\* the timeout helium_serial_readable passes to poll: none
PollTimeout == -1

\* faulty variant: tests the wrong condition bit, so buffered input is never
\* reported (C4 detects it)
helium_serial_readable_pollpri(p) ==
    IF p.ret = 1 THEN "POLLPRI" \in p.revents ELSE FALSE

\* faulty variant: returns revents without masking POLLIN, so any reported
\* condition counts as readable (C6 detects it)
helium_serial_readable_unmasked(p) ==
    IF p.ret = 1 THEN p.revents # {} ELSE FALSE

\* helium_serial_readable: the value returned for poll's outcome p
helium_serial_readable(p) ==
    IF p.ret = 1 THEN "POLLIN" \in p.revents ELSE FALSE

\* faulty variant: takes end-of-file (0 bytes) for success (C5 detects it)
helium_serial_getc_nonneg(n) == n >= 0

\* faulty variant: takes an error (-1) for success (C7 detects it)
helium_serial_getc_nonzero(n) == n # 0

\* helium_serial_getc: the value returned for read's result n
helium_serial_getc(n) == n > 0

\* helium_serial_putc: the value returned for write's result n
helium_serial_putc(n) == n = 1

\* faulty variant: the 14400 case falls back to the lower speed (C2 detects
\* it)
BaudRate_lower(baud) ==
    CASE baud = "helium_baud_b9600" -> "B9600"
      [] baud = "helium_baud_b14400" -> "B9600"
      [] baud = "helium_baud_b19200" -> "B19200"
      [] baud = "helium_baud_b38400" -> "B38400"
      [] baud = "helium_baud_b57600" -> "B57600"
      [] baud = "helium_baud_b115200" -> "B115200"
      [] OTHER -> "B9600"

\* the switch of open_serial_port: speed_t for an enum helium_baud
BaudRate(baud) ==
    CASE baud = "helium_baud_b9600" -> "B9600"
      [] baud = "helium_baud_b14400" -> "B19200"
      [] baud = "helium_baud_b19200" -> "B19200"
      [] baud = "helium_baud_b38400" -> "B38400"
      [] baud = "helium_baud_b57600" -> "B57600"
      [] baud = "helium_baud_b115200" -> "B115200"
      [] OTHER -> "B9600"

\* faulty variant: ICRNL is left as it was, so a received CR may become NL
\* (C3 detects it)
LineConfig_keep_icrnl(tty, speed) ==
    [cflag |-> (((tty.cflag \cup {"CLOCAL", "CREAD"}) \ CSIZE) \cup CS8)
                 \ {"PARENB", "CSTOPB", "CRTSCTS"},
     iflag |-> tty.iflag \ {"IGNBRK", "BRKINT", "PARMRK", "ISTRIP",
                            "INLCR", "IGNCR", "IXON"},
     lflag |-> tty.lflag \ {"ECHO", "ECHONL", "ICANON", "ISIG", "IEXTEN"},
     oflag |-> tty.oflag \ {"OPOST"},
     vmin |-> 1, vtime |-> 1,
     ispeed |-> speed, ospeed |-> speed]

\* faulty variant: the second stop bit is left as it was (C8 detects it)
LineConfig_keep_cstopb(tty, speed) ==
    [cflag |-> (((tty.cflag \cup {"CLOCAL", "CREAD"}) \ CSIZE) \cup CS8)
                 \ {"PARENB", "CRTSCTS"},
     iflag |-> tty.iflag \ {"IGNBRK", "BRKINT", "PARMRK", "ISTRIP",
                            "INLCR", "IGNCR", "ICRNL", "IXON"},
     lflag |-> tty.lflag \ {"ECHO", "ECHONL", "ICANON", "ISIG", "IEXTEN"},
     oflag |-> tty.oflag \ {"OPOST"},
     vmin |-> 1, vtime |-> 1,
     ispeed |-> speed, ospeed |-> speed]

\* the struct termios _set_interface_attribs builds from the one tcgetattr
\* returned
LineConfig(tty, speed) ==
    LET c1 == tty.cflag \cup {"CLOCAL", "CREAD"}
        c2 == c1 \ CSIZE
        c3 == c2 \cup CS8
        c4 == c3 \ {"PARENB"}
        c5 == c4 \ {"CSTOPB"}
        c6 == c5 \ {"CRTSCTS"}
    IN  [cflag |-> c6,
         iflag |-> tty.iflag \ {"IGNBRK", "BRKINT", "PARMRK", "ISTRIP",
                                "INLCR", "IGNCR", "ICRNL", "IXON"},
         lflag |-> tty.lflag \ {"ECHO", "ECHONL", "ICANON", "ISIG", "IEXTEN"},
         oflag |-> tty.oflag \ {"OPOST"},
         vmin |-> 1, vtime |-> 1,
         ispeed |-> speed, ospeed |-> speed]

\* faulty variant: the result of tcgetattr is not tested (C1 detects it)
set_interface_attribs_unchecked(speed, fault) ==
    IF fault = "tcsetattr"
    THEN [ret |-> -1, tio |-> tio, req |-> <<"tcgetattr", "tcsetattr">>]
    ELSE [ret |-> 0, tio |-> LineConfig(tio, speed),
          req |-> <<"tcgetattr", "tcsetattr">>]

\* _set_interface_attribs(fd, speed), with the system call the operating
\* system fails (if any): its result, the device's termios afterwards and
\* the system calls made
set_interface_attribs(speed, fault) ==
    IF fault = "tcgetattr"
    THEN [ret |-> -1, tio |-> tio, req |-> <<"tcgetattr">>]
    ELSE IF fault = "tcsetattr"
    THEN [ret |-> -1, tio |-> tio, req |-> <<"tcgetattr", "tcsetattr">>]
    ELSE [ret |-> 0, tio |-> LineConfig(tio, speed),
          req |-> <<"tcgetattr", "tcsetattr">>]

\* faulty variant of what the source does: the descriptor is closed again on
\* every failure path (C10 detects it)
open_serial_port_closing(portname, baud, fault) ==
    LET o == sys_open(portname)
        fd == o.ret
        sia == set_interface_attribs(BaudRate(baud), fault)
        failure(req) ==
            [ret |-> -1, newfd |-> fd, fdtab |-> fdtab,
             excl |-> IF AnyOpen(fdtab) THEN excl ELSE FALSE,
             tio |-> tio, req |-> req \o <<"close">>]
    IN  IF fd < 0
        THEN [ret |-> -1, newfd |-> fd, fdtab |-> fdtab, excl |-> excl,
              tio |-> tio, req |-> <<"open">>]
        ELSE IF fault = "ioctl" THEN failure(<<"open", "ioctl">>)
        ELSE IF fault = "fcntl" THEN failure(<<"open", "ioctl", "fcntl">>)
        ELSE IF sia.ret # 0
        THEN failure(<<"open", "ioctl", "fcntl">> \o sia.req)
        ELSE [ret |-> fd, newfd |-> fd,
              fdtab |-> [o.fdtab EXCEPT ![fd].nonblock = FALSE],
              excl |-> TRUE, tio |-> sia.tio,
              req |-> <<"open", "ioctl", "fcntl">> \o sia.req]

\* open_serial_port(portname, baud), with the system call after open(2)
\* that the operating system fails (if any): the value returned, the
\* descriptor open(2) gave, the state of the system afterwards and the
\* system calls made
open_serial_port(portname, baud, fault) ==
    LET o == sys_open(portname)
        fd == o.ret
        blocking == IF fd \in Fds
                    THEN [o.fdtab EXCEPT ![fd].nonblock = FALSE]
                    ELSE o.fdtab
        sia == set_interface_attribs(BaudRate(baud), fault)
    IN  IF fd < 0
        THEN [ret |-> -1, newfd |-> fd, fdtab |-> o.fdtab, excl |-> excl,
              tio |-> tio, req |-> <<"open">>]
        ELSE IF fault = "ioctl"
        THEN [ret |-> -1, newfd |-> fd, fdtab |-> o.fdtab, excl |-> excl,
              tio |-> tio, req |-> <<"open", "ioctl">>]
        ELSE IF fault = "fcntl"
        THEN [ret |-> -1, newfd |-> fd, fdtab |-> o.fdtab, excl |-> TRUE,
              tio |-> tio, req |-> <<"open", "ioctl", "fcntl">>]
        ELSE IF sia.ret # 0
        THEN [ret |-> -1, newfd |-> fd, fdtab |-> blocking, excl |-> TRUE,
              tio |-> sia.tio, req |-> <<"open", "ioctl", "fcntl">> \o sia.req]
        ELSE [ret |-> fd, newfd |-> fd, fdtab |-> blocking, excl |-> TRUE,
              tio |-> sia.tio, req |-> <<"open", "ioctl", "fcntl">> \o sia.req]


\* faulty variant: the descriptor is not closed (C9 detects it)
close_serial_port_noop(fd) ==
    [ret |-> 0, fdtab |-> fdtab, excl |-> excl, rxq |-> rxq]

\* close_serial_port(fd): close(fd), its result dropped by the shim
close_serial_port(fd) == sys_close(fd)

----------------------------------------------------------------------------
(* The state machine: one action per operation of the shim, and the       *)
(* events of the device.                                                  *)

\* the record of a call, before its fields are filled in
NoCall ==
    [op |-> "none", fd |-> -1, path |-> "", baud |-> "", fault |-> "none",
     newfd |-> -1, ret |-> 0, ok |-> FALSE, ch |-> -1, revents |-> {},
     req |-> <<>>, count |-> 0, timeout |-> 0, taken |-> <<>>,
     sent |-> <<>>, prelen |-> 0]

\* the handles the caller has been given (open, closed, or closed and
\* followed by another call of open_serial_port)
Handles == {f \in Fds : hstate[f] # "none"}

Init ==
    /\ fdtab = [f \in Fds |-> Free]
    /\ excl = FALSE
    /\ tio \in InitialTermios
    /\ rxq = <<>>
    /\ hup = FALSE
    /\ wiring \in {"loopback", "remote"}
    /\ hstate = [f \in Fds |-> "none"]
    /\ last = NoCall

\* fault names the system call after open(2) that the operating system
\* fails during this call, if that call is made
OpenSerialPort(portname, baud, fault) ==
    LET r == open_serial_port(portname, baud, fault)
    IN  /\ fault # "none" => sys_open(portname).ret >= 0
        /\ fdtab' = r.fdtab
        /\ excl' = r.excl
        /\ tio' = r.tio
        /\ hstate' = [f \in Fds |->
                        IF f = r.ret THEN "open"
                        ELSE IF hstate[f] = "closed" THEN "lapsed"
                        ELSE hstate[f]]
        /\ last' = [NoCall EXCEPT !.op = "open", !.path = portname,
                      !.baud = baud, !.fault = fault, !.newfd = r.newfd,
                      !.fd = r.ret, !.ret = r.ret, !.ok = (r.ret >= 0),
                      !.req = r.req, !.prelen = Len(rxq)]
        /\ UNCHANGED <<rxq, hup, wiring>>

CloseSerialPort(fd) ==
    LET r == close_serial_port(fd)
    IN  /\ fd \in Handles
        /\ fdtab' = r.fdtab
        /\ excl' = r.excl
        /\ rxq' = r.rxq
        /\ hstate' = [hstate EXCEPT ![fd] = "closed"]
        /\ last' = [NoCall EXCEPT !.op = "close", !.fd = fd, !.ret = r.ret,
                      !.req = <<"close">>, !.prelen = Len(rxq)]
        /\ UNCHANGED <<tio, hup, wiring>>

Readable(fd) ==
    /\ fd \in Handles
    /\ \E p \in sys_poll(fd, PollTimeout) :
         last' = [NoCall EXCEPT !.op = "readable", !.fd = fd, !.ret = p.ret,
                    !.revents = p.revents, !.ok = helium_serial_readable(p),
                    !.req = <<"poll">>, !.count = 1,
                    !.timeout = PollTimeout,
                    !.prelen = Len(rxq)]
    /\ UNCHANGED <<fdtab, excl, tio, rxq, hup, wiring, hstate>>

Getc(fd) ==
    /\ fd \in Handles
    /\ \E r \in sys_read(fd, 1) :
         /\ rxq' = r.rxq
         /\ last' = [NoCall EXCEPT !.op = "getc", !.fd = fd, !.ret = r.n,
                       !.ok = helium_serial_getc(r.n),
                       !.ch = IF r.data = <<>> THEN -1 ELSE r.data[1],
                       !.taken = r.data, !.req = <<"read">>, !.count = 1,
                       !.prelen = Len(rxq)]
    /\ UNCHANGED <<fdtab, excl, tio, hup, wiring, hstate>>

Putc(fd, ch) ==
    LET r == sys_write(fd, <<ch>>)
    IN  /\ fd \in Handles
        /\ rxq' = r.rxq
        /\ last' = [NoCall EXCEPT !.op = "putc", !.fd = fd, !.ret = r.n,
                      !.ok = helium_serial_putc(r.n), !.ch = ch,
                      !.sent = r.sent, !.req = <<"write">>, !.count = 1,
                      !.prelen = Len(rxq)]
        /\ UNCHANGED <<fdtab, excl, tio, hup, wiring, hstate>>

\* helium_wait_us(param, us): usleep(us); param is not used
WaitUs(us) ==
    /\ last' = [NoCall EXCEPT !.op = "wait_us", !.req = <<"usleep">>,
                  !.count = us, !.prelen = Len(rxq)]
    /\ UNCHANGED <<fdtab, excl, tio, rxq, hup, wiring, hstate>>

\* the remote peer sends a byte
DeviceReceive(b) ==
    /\ wiring = "remote"
    /\ ~hup
    /\ AnyOpen(fdtab)
    /\ Len(rxq) < MaxQueue
    /\ rxq' = Enqueue(rxq, Receive(tio, <<b>>))
    /\ UNCHANGED <<fdtab, excl, tio, hup, wiring, hstate, last>>

\* the device is unplugged: the tty hangs up and its input is flushed
Hangup ==
    /\ ~hup
    /\ hup' = TRUE
    /\ rxq' = <<>>
    /\ UNCHANGED <<fdtab, excl, tio, wiring, hstate, last>>

\* the calls a caller makes and the events of the device; open_serial_port
\* is called with one selector here, and with every selector in NextOpen
Next ==
    \/ \E portname \in IOPaths, baud \in IOBauds, fault \in Faults :
         OpenSerialPort(portname, baud, fault)
    \/ \E fd \in Fds : CloseSerialPort(fd)
    \/ \E fd \in Fds : Readable(fd)
    \/ \E fd \in Fds : Getc(fd)
    \/ \E fd \in Fds, ch \in Bytes : Putc(fd, ch)
    \/ \E us \in {1000} : WaitUs(us)
    \/ \E b \in Bytes : DeviceReceive(b)
    \/ Hangup

Spec == Init /\ [][Next]_vars

\* opening and closing only, with every path, selector and failing call
NextOpen ==
    \/ \E portname \in Paths, baud \in BaudArgs, fault \in Faults :
         OpenSerialPort(portname, baud, fault)
    \/ \E fd \in Fds : CloseSerialPort(fd)
    \/ Hangup

InitOpen == Init /\ wiring = "remote"

SpecOpen == InitOpen /\ [][NextOpen]_vars

\* a loopback plug that stays plugged, and every byte value: a byte is
\* written to an open handle, and only when the input queue is empty, so
\* that the byte read next is the one written
PutcEmpty(fd, ch) == rxq = <<>> /\ hstate[fd] = "open" /\ Putc(fd, ch)

NextRT ==
    \/ \E portname \in IOPaths, baud \in IOBauds, fault \in Faults :
         OpenSerialPort(portname, baud, fault)
    \/ \E fd \in Fds : CloseSerialPort(fd)
    \/ \E fd \in Fds, ch \in AllBytes : PutcEmpty(fd, ch)
    \/ \E fd \in Fds : Getc(fd)

InitRT == Init /\ wiring = "loopback"

SpecRT == InitRT /\ [][NextRT]_vars

----------------------------------------------------------------------------
(* Properties.                                                            *)

\* the line speed, in bits per second, of a speed_t constant
SpeedBps ==
    [B9600 |-> 9600, B19200 |-> 19200, B38400 |-> 38400, B57600 |-> 57600,
     B115200 |-> 115200]

\* the nominal speed, in bits per second, of a selector
NominalBps ==
    [helium_baud_b9600 |-> 9600, helium_baud_b14400 |-> 14400,
     helium_baud_b19200 |-> 19200, helium_baud_b38400 |-> 38400,
     helium_baud_b57600 |-> 57600, helium_baud_b115200 |-> 115200]

\* every system call of the last open_serial_port succeeded
AllStepsSucceeded == last.newfd >= 0 /\ last.fault = "none"

\* C1: open_serial_port returns a valid handle (a descriptor >= 0, open in
\* the process) if and only if open(2), the TIOCEXCL ioctl, fcntl,
\* tcgetattr and tcsetattr all succeeded; otherwise it returns exactly -1,
\* for every path and selector.
C1_OpenValidIffAllStepsSucceed ==
    last.op = "open" =>
        /\ (last.ret >= 0) <=> AllStepsSucceeded
        /\ last.ret >= 0 => (last.ret = last.newfd /\ IsOpen(last.ret))
        /\ ~AllStepsSucceeded => last.ret = -1

C1_Witness ==
    /\ last.op = "open"
    /\ last.path = DevPath
    /\ last.newfd >= 0
    /\ last.fault = "tcgetattr"
    /\ last.ret = -1

\* C2: after a successful open_serial_port with a selector of the
\* enumeration, the input and the output speed of the line are both the
\* selector's nominal speed, except for 14400, which gives the 19200 speed;
\* and no selector makes an open fail whose system calls all succeed.
C2_BaudMapping ==
    (last.op = "open" /\ last.baud \in Bauds) =>
        /\ AllStepsSucceeded => last.ret >= 0
        /\ last.ret >= 0 =>
             LET want == IF last.baud = "helium_baud_b14400" THEN 19200
                         ELSE NominalBps[last.baud]
             IN  /\ SpeedBps[tio.ispeed] = want
                 /\ SpeedBps[tio.ospeed] = want

C2_Witness ==
    /\ last.op = "open"
    /\ last.ret >= 0
    /\ last.baud = "helium_baud_b14400"
    /\ tio.ispeed = "B19200"
    /\ tio.ospeed = "B19200"

\* the line passes every byte value unchanged, in both directions
RawLine(t) ==
    \A b \in AllBytes :
        /\ OutputProcess(t, b) = <<b>>
        /\ Receive(t, <<b>>) = <<b>>

\* C8: after every successful open_serial_port the descriptor is in blocking
\* mode, exclusive access is claimed, and the line is 8 data bits, no
\* parity, one stop bit, no hardware flow control, CLOCAL and CREAD set,
\* raw non-canonical input and unprocessed output, VMIN = 1 and VTIME = 1;
\* the attributes are committed by exactly one tcsetattr call, the last
\* system call made, after the TIOCEXCL ioctl and the fcntl.
C8_LineConfiguration ==
    (last.op = "open" /\ last.ret >= 0) =>
        /\ ~fdtab[last.ret].nonblock
        /\ excl
        /\ CharBits(tio) = 8
        /\ tio.cflag \cap {"PARENB", "CSTOPB", "CRTSCTS"} = {}
        /\ {"CLOCAL", "CREAD"} \subseteq tio.cflag
        /\ tio.iflag \cap {"IGNBRK", "BRKINT", "PARMRK", "ISTRIP", "INLCR",
                           "IGNCR", "ICRNL", "IXON"} = {}
        /\ tio.lflag \cap {"ECHO", "ECHONL", "ICANON", "ISIG", "IEXTEN"} = {}
        /\ "OPOST" \notin tio.oflag
        /\ RawLine(tio)
        /\ tio.vmin = 1
        /\ tio.vtime = 1
        /\ last.req = <<"open", "ioctl", "fcntl", "tcgetattr", "tcsetattr">>

C8_Witness ==
    /\ last.op = "open"
    /\ last.ret >= 0
    /\ "INPCK" \in tio.iflag
    /\ CharBits(tio) = 8
    /\ ~fdtab[last.ret].nonblock

\* C10: when open_serial_port fails at a system call after open(2) gave a
\* descriptor, it returns -1 and the descriptor stays allocated, is not a
\* handle the caller holds, and the exclusive-access claim is kept if the
\* ioctl made it; when open(2) itself fails no descriptor is allocated.
C10_FailedOpenLeaksDescriptor ==
    [][\A portname \in Paths, baud \in BaudArgs, fault \in Faults :
         OpenSerialPort(portname, baud, fault) =>
             LET fd == sys_open(portname).ret
             IN  /\ fd < 0 =>
                      (last'.ret = -1 /\ fdtab' = fdtab /\ excl' = excl)
                 /\ (fd >= 0 /\ fault # "none") =>
                      /\ last'.ret = -1
                      /\ ~fdtab[fd].used
                      /\ fdtab'[fd].used
                      /\ hstate'[fd] # "open"
                      /\ fault # "ioctl" => excl']_vars

C10_Witness ==
    /\ last.op = "open"
    /\ last.fault = "fcntl"
    /\ last.ret = -1
    /\ last.newfd >= 0
    /\ fdtab[last.newfd].used
    /\ hstate[last.newfd] # "open"
    /\ excl

\* C3: on a loopback-wired device, after a successful open, a byte b written
\* with success to a handle whose input queue was empty is what the read
\* that follows on that handle returns, with success, for every b in 0..255.
C3_LoopbackRoundTrip ==
    [][\A fd \in Fds :
         (/\ last.op = "putc" /\ last.fd = fd /\ last.ok
          /\ last.prelen = 0
          /\ hstate[fd] = "open"
          /\ wiring = "loopback"
          /\ Getc(fd))
         => (last'.ok /\ last'.ch = last.ch /\ rxq' = <<>>)]_vars

C3_Witness ==
    /\ wiring = "loopback"
    /\ last.op = "getc"
    /\ last.ok
    /\ last.ch = 13
    /\ hstate[last.fd] = "open"

\* a one-byte read on fd would return at once with its byte
ReadSucceedsAtOnce(fd) ==
    \A r \in sys_read(fd, 1) : r.n = 1 /\ ~r.intr

\* C4: on an open handle whose device has at least one byte buffered,
\* readable returns true exactly when a read_byte would succeed at once;
\* and when readable has returned true there, the read_byte that follows
\* returns ok = true.
C4_ReadableAgreesWithRead ==
    /\ [](\A fd \in Fds :
            (/\ last.op = "readable" /\ last.fd = fd
             /\ hstate[fd] = "open"
             /\ last.prelen >= 1
             /\ rxq # <<>>)
            => (last.ok <=> ReadSucceedsAtOnce(fd)))
    /\ [][\A fd \in Fds :
            (/\ last.op = "readable" /\ last.fd = fd /\ last.ok
             /\ hstate[fd] = "open"
             /\ last.prelen >= 1
             /\ rxq # <<>>
             /\ Getc(fd))
            => last'.ok]_vars

C4_Witness ==
    /\ last.op = "readable"
    /\ last.ok
    /\ hstate[last.fd] = "open"
    /\ last.prelen >= 1
    /\ rxq # <<>>
    /\ ReadSucceedsAtOnce(last.fd)

\* C5: read_byte and write_byte each make exactly one system call, a
\* transfer request for one byte, and return success if and only if that
\* request transferred exactly one byte; a result of zero bytes or an error
\* is a failure.
C5_OneRequestOneByte ==
    /\ last.op = "getc" =>
         /\ last.req = <<"read">>
         /\ last.count = 1
         /\ last.ok <=> (last.ret = 1 /\ Len(last.taken) = 1)
         /\ last.ret <= 0 => ~last.ok
    /\ last.op = "putc" =>
         /\ last.req = <<"write">>
         /\ last.count = 1
         /\ last.ok <=> last.ret = 1
         /\ last.ret <= 0 => (~last.ok /\ last.sent = <<>>)

C5_Witness ==
    /\ last.op = "getc"
    /\ last.ret = 0
    /\ ~last.ok

\* C6: readable makes one poll call on the one descriptor with no timeout
\* (so poll never reports a timeout), returns true only if POLLIN is among
\* the reported conditions, and returns false on a poll error and whenever
\* the reported conditions exclude POLLIN.
C6_ReadableOnlyOnPollin ==
    last.op = "readable" =>
        /\ last.req = <<"poll">>
        /\ last.count = 1
        /\ last.timeout < 0
        /\ last.ret # 0
        /\ last.ok => "POLLIN" \in last.revents
        /\ last.ret < 0 => ~last.ok
        /\ "POLLIN" \notin last.revents => ~last.ok

C6_Witness ==
    /\ last.op = "readable"
    /\ last.ret = 1
    /\ last.revents = {"POLLERR", "POLLHUP"}
    /\ ~last.ok

\* C7: a read_byte on an open handle whose device has no data buffered and
\* has not hung up waits (only a signal ends it, with failure); and a
\* read_byte returns ok = true only when it took the byte at the head of the
\* device's input queue, which is the byte it returns.
C7_NoSpuriousRead ==
    /\ [](\A fd \in Fds :
            (hstate[fd] = "open" /\ rxq = <<>> /\ ~hup) => ReadWaits(fd))
    /\ [][\A fd \in Fds :
            (Getc(fd) /\ last'.ok) =>
                /\ rxq # <<>>
                /\ last'.ch = Head(rxq)
                /\ rxq' = Tail(rxq)]_vars

C7_Witness ==
    /\ last.op = "getc"
    /\ hstate[last.fd] = "open"
    /\ last.prelen = 0
    /\ ~hup
    /\ last.ret = -1
    /\ ~last.ok

\* C9: once close has been called on a handle, and until open_serial_port
\* is called again, every readable, read_byte, write_byte and close on it
\* returns without waiting, reports failure and moves no byte: the input
\* queue is untouched and nothing is put on the wire.
C9_ClosedHandleFails ==
    \A fd \in Fds :
        hstate[fd] = "closed" =>
            /\ ~IsOpen(fd)
            /\ ~PollWaits(fd, PollTimeout)
            /\ ~ReadWaits(fd)
            /\ \A p \in sys_poll(fd, PollTimeout) : ~helium_serial_readable(p)
            /\ \A r \in sys_read(fd, 1) :
                 ~helium_serial_getc(r.n) /\ r.data = <<>> /\ r.rxq = rxq
            /\ \A b \in AllBytes :
                 LET w == sys_write(fd, <<b>>)
                 IN  ~helium_serial_putc(w.n) /\ w.sent = <<>> /\ w.rxq = rxq
            /\ close_serial_port(fd).ret = -1
            /\ close_serial_port(fd).rxq = rxq
            /\ (last.fd = fd /\ last.op \in {"readable", "getc", "putc"}) =>
                 (~last.ok /\ last.taken = <<>> /\ last.sent = <<>>)

C9_Witness ==
    /\ last.op = "putc"
    /\ hstate[last.fd] = "closed"
    /\ ~last.ok
    /\ AnyOpen(fdtab)

=============================================================================
